---- MODULE Spec2Model ----
(***************************************************************************)
(* A model of wgputil: the binding-group factory (binding.rs), the shader  *)
(* source manager and compiler (shader.rs) and the texture uploader        *)
(* (texture.rs).  The device and the queue are external; the model records *)
(* the calls an operation issues on them, in order, in deviceCalls.        *)
(***************************************************************************)
EXTENDS Integers, Sequences, FiniteSets, TLC

VARIABLES
    call,         \* the operation invoked last and its arguments
    ret,          \* what that operation returned (or that it panicked)
    deviceCalls,  \* device / queue calls issued by that operation, in order
    file,         \* the bytes stored at the shader's path, None if absent
    source,       \* the caller's ShaderSource, None before the first load
    errorScopes,  \* the device's stack of error-capture scopes
    encoder,      \* commands recorded in the caller's CommandEncoder, in order
    log,          \* records the operation invoked last handed to the logger
    started       \* TimeQuery.started of every TimeQuery constructed so far

vars ==
    <<call, ret, deviceCalls, file, source, errorScopes, encoder, log, started>>

otherVars == <<encoder, log, started>>

(* Before the first operation: an encoder with nothing recorded, nothing   *)
(* logged, no TimeQuery constructed.                                       *)
FreshEncoder ==
    /\ encoder = <<>>
    /\ log = <<>>
    /\ started = <<>>

shaderVars == <<file, source, errorScopes>>

----------------------------------------------------------------------------
(* Option<T>: None is the empty tuple, Some(x) the one-element tuple.      *)
None == <<>>
Some(x) == <<x>>
IsSome(o) == Len(o) = 1
Unwrap(o) == o[1]

(* Sequences over S of length at most n.                                   *)
SeqsUpTo(S, n) == UNION {[1..k -> S] : k \in 0..n}

----------------------------------------------------------------------------
(* Bounds of the model.                                                    *)
MaxArray == 1      \* longest resource array handed to a bind_* constructor
MaxEntries == 2    \* longest descriptor list handed to the factory

----------------------------------------------------------------------------
(* binding.rs                                                              *)

Buffers == {"buffer0"}
Views == {"view0"}
Samplers == {"sampler0"}

BufferType(ty) ==
    [kind |-> "Buffer", ty |-> ty, has_dynamic_offset |-> FALSE,
     min_binding_size |-> None]
TextureType == [kind |-> "Texture", multisampled |-> FALSE]
StorageTextureType == [kind |-> "StorageTexture"]
SamplerType == [kind |-> "Sampler"]

bind_buffer_uniform(buffer) ==
    [binding_type |-> BufferType("Uniform"),
     count |-> None,
     resource |-> [variant |-> "Buffer", handles |-> <<buffer>>]]

bind_buffer_storage(buffer, read_only) ==
    [binding_type |-> BufferType(IF read_only THEN "StorageRO" ELSE "StorageRW"),
     count |-> None,
     resource |-> [variant |-> "Buffer", handles |-> <<buffer>>]]

bind_texture(view) ==
    [binding_type |-> TextureType,
     count |-> None,
     resource |-> [variant |-> "TextureView", handles |-> <<view>>]]

bind_textures(views) ==
    [binding_type |-> TextureType,
     count |-> Some(Len(views)),
     resource |-> [variant |-> "TextureViewArray", handles |-> views]]

bind_storage_texture(view) ==
    [binding_type |-> StorageTextureType,
     count |-> None,
     resource |-> [variant |-> "TextureView", handles |-> <<view>>]]

bind_storage_textures(views) ==
    [binding_type |-> StorageTextureType,
     count |-> Some(Len(views)),
     resource |-> [variant |-> "TextureViewArray", handles |-> views]]

bind_sampler(sampler) ==
    [binding_type |-> SamplerType,
     count |-> None,
     resource |-> [variant |-> "Sampler", handles |-> <<sampler>>]]

bind_samplers(samplers) ==
    [binding_type |-> SamplerType,
     count |-> Some(Len(samplers)),
     resource |-> [variant |-> "SamplerArray", handles |-> samplers]]

(* A BindingEntry has public fields, so a caller can also write one by     *)
(* hand, with a count that is unrelated to the resource.                   *)
HandWrittenEntries ==
    {[binding_type |-> TextureType,
      count |-> c,
      resource |-> [variant |-> "TextureViewArray", handles |-> vs]] :
        c \in {None} \cup {Some(n) : n \in 0..(MaxArray + 1)},
        vs \in SeqsUpTo(Views, MaxArray)}

BindingEntries ==
    {bind_buffer_uniform(b) : b \in Buffers}
    \cup {bind_buffer_storage(b, TRUE) : b \in Buffers}
    \cup {bind_texture(v) : v \in Views}
    \cup {bind_textures(vs) : vs \in SeqsUpTo(Views, MaxArray)}
    \cup {bind_storage_texture(v) : v \in Views}
    \cup {bind_storage_textures(vs) : vs \in SeqsUpTo(Views, MaxArray)}
    \cup {bind_sampler(s) : s \in Samplers}
    \cup {bind_samplers(ss) : ss \in SeqsUpTo(Samplers, MaxArray)}
    \cup HandWrittenEntries

(* NonZero::new on the count.  The casts to u32 (of a count, of an index)  *)
(* keep every value below 2^32, and no list or array here is that long.    *)
NonZeroU32(c) == IF c = 0 THEN None ELSE Some(c)

LayoutCount(count) ==
    IF IsSome(count) THEN NonZeroU32(Unwrap(count)) ELSE None

(* build with the layout entry numbered one too high.                      *)
buildShifted(e, index) ==
    <<[binding |-> index + 1, visibility |-> "all",
       ty |-> e.binding_type, count |-> LayoutCount(e.count)],
      [binding |-> index, resource |-> e.resource]>>

(* BindingEntry::build: the layout entry and the group entry of one slot.  *)
build(e, index) ==
    <<[binding |-> index, visibility |-> "all",
       ty |-> e.binding_type, count |-> LayoutCount(e.count)],
      [binding |-> index, resource |-> e.resource]>>

(* entries.iter().enumerate().map(|(i, e)| e.build(i)); Rust's indices     *)
(* start at 0, the model's sequences at 1.                                 *)
built_entries(entries) ==
    [i \in 1..Len(entries) |-> build(entries[i], i - 1)]

bind_group_layout_entries(entries) ==
    [i \in 1..Len(entries) |-> built_entries(entries)[i][1]]

bind_group_entries(entries) ==
    [i \in 1..Len(entries) |-> built_entries(entries)[i][2]]

(* create_sequential_linked: the layout, then the group against it.        *)
create_sequential_linked(label, entries) ==
    [ret |-> [kind |-> "Ok",
              layout |-> [label |-> label,
                          entries |-> bind_group_layout_entries(entries)],
              group |-> [label |-> label,
                         entries |-> bind_group_entries(entries)]],
     calls |-> <<[fn |-> "create_bind_group_layout", label |-> label,
                  entries |-> bind_group_layout_entries(entries)],
                 [fn |-> "create_bind_group", label |-> label,
                  layout |-> label,
                  entries |-> bind_group_entries(entries)]>>]

raw_group_entries(resources) ==
    [i \in 1..Len(resources) |-> [binding |-> i - 1,
                                  resource |-> resources[i]]]

(* create_sequential_with_layout: the group against the caller's layout.   *)
create_sequential_with_layout(label, layout, resources) ==
    [ret |-> [kind |-> "Ok",
              group |-> [label |-> label,
                         entries |-> raw_group_entries(resources)]],
     calls |-> <<[fn |-> "create_bind_group", label |-> label,
                  layout |-> layout,
                  entries |-> raw_group_entries(resources)]>>]

Labels == {"group"}
Layouts == {"layout0"}
Resources == {e.resource : e \in BindingEntries}

NoCall == [op |-> "none"]
NoRet == [kind |-> "none"]

(* The factory keeps no state: a run is one invocation, drawn by Init, and *)
(* the action that carries it out.                                         *)
BindingCalls ==
    {[op |-> "create_sequential_linked", label |-> l, entries |-> es] :
        l \in Labels, es \in SeqsUpTo(BindingEntries, MaxEntries)}
    \cup
    {[op |-> "create_sequential_with_layout", label |-> l, layout |-> ly,
      entries |-> rs] :
        l \in Labels, ly \in Layouts, rs \in SeqsUpTo(Resources, MaxEntries)}

CreateSequentialLinked ==
    /\ call.op = "create_sequential_linked"
    /\ ret = NoRet
    /\ LET r == create_sequential_linked(call.label, call.entries) IN
        /\ ret' = r.ret
        /\ deviceCalls' = r.calls
    /\ UNCHANGED <<call, shaderVars, otherVars>>

CreateSequentialWithLayout ==
    /\ call.op = "create_sequential_with_layout"
    /\ ret = NoRet
    /\ LET r == create_sequential_with_layout(call.label, call.layout,
                                              call.entries) IN
        /\ ret' = r.ret
        /\ deviceCalls' = r.calls
    /\ UNCHANGED <<call, shaderVars, otherVars>>

InitBinding ==
    /\ call \in BindingCalls
    /\ ret = NoRet
    /\ deviceCalls = <<>>
    /\ file = None
    /\ source = None
    /\ errorScopes = <<>>
    /\ FreshEncoder

NextBinding ==
    \/ CreateSequentialLinked
    \/ CreateSequentialWithLayout

SpecBinding == InitBinding /\ [][NextBinding]_vars

----------------------------------------------------------------------------
(* Claims about the binding-group factory, checked under SpecBinding.      *)

LinkedDone == call.op = "create_sequential_linked" /\ ret # NoRet
WithLayoutDone == call.op = "create_sequential_with_layout" /\ ret # NoRet

(* C1: for a list of N descriptors handed to create_sequential_linked, the *)
(* layout entry list and the group entry list handed to the device each    *)
(* hold exactly N entries, and entry i of both carries binding index i and *)
(* the i-th descriptor's kind and resource; create_sequential_with_layout  *)
(* gives the i-th raw resource binding index i in the same way.            *)
C1_SequentialIndices ==
    /\ LinkedDone =>
          /\ Len(deviceCalls) = 2
          /\ deviceCalls[1].fn = "create_bind_group_layout"
          /\ deviceCalls[2].fn = "create_bind_group"
          /\ Len(deviceCalls[1].entries) = Len(call.entries)
          /\ Len(deviceCalls[2].entries) = Len(call.entries)
          /\ ret.layout.entries = deviceCalls[1].entries
          /\ ret.group.entries = deviceCalls[2].entries
          /\ \A i \in 1..Len(call.entries) :
                /\ deviceCalls[1].entries[i].binding = i - 1
                /\ deviceCalls[2].entries[i].binding = i - 1
                /\ deviceCalls[1].entries[i].ty = call.entries[i].binding_type
                /\ deviceCalls[2].entries[i].resource = call.entries[i].resource
    /\ WithLayoutDone =>
          /\ Len(deviceCalls) = 1
          /\ deviceCalls[1].fn = "create_bind_group"
          /\ Len(deviceCalls[1].entries) = Len(call.entries)
          /\ \A i \in 1..Len(call.entries) :
                /\ deviceCalls[1].entries[i].binding = i - 1
                /\ deviceCalls[1].entries[i].resource = call.entries[i]

(* A list of at least two descriptors has been built into a linked pair.   *)
C1_Witness ==
    /\ LinkedDone
    /\ ret.kind = "Ok"
    /\ Len(call.entries) >= 2
    /\ call.entries[1] # call.entries[2]

(* An array-typed descriptor whose arity is not the number of resource     *)
(* handles it carries, or is zero.                                         *)
ArityInvalid(e) ==
    /\ IsSome(e.count)
    /\ \/ Unwrap(e.count) # Len(e.resource.handles)
       \/ Unwrap(e.count) = 0

(* C2: building a group from a list that holds an array-typed descriptor   *)
(* with a wrong or a zero arity fails before any device call: no bind      *)
(* group layout and no bind group is created.                              *)
C2_ArityCheckedBeforeDevice ==
    (LinkedDone /\ \E i \in 1..Len(call.entries) : ArityInvalid(call.entries[i]))
        => (ret.kind = "Err" /\ deviceCalls = <<>>)

----------------------------------------------------------------------------
(* shader.rs                                                               *)

MaxFileLen == 2       \* longest shader file, in bytes
MaxOuterScopes == 1   \* error scopes the caller holds open around a call

(* The bytes a shader file is made of: 'a', and the two bytes of U+00E9,   *)
(* which are text in that order only.                                      *)
FileBytes == {97, 195, 169}
FileContents == SeqsUpTo(FileBytes, MaxFileLen)

(* file = None stands for every state of the path in which the read fails  *)
(* (no such file, or one that cannot be read).                             *)
FileStates == {None} \cup {Some(bytes) : bytes \in FileContents}

Ok(x) == [kind |-> "Ok", val |-> x]
Err(e) == [kind |-> "Err", err |-> e]
Panic(msg) == [kind |-> "Panic", msg |-> msg]

(* Result::ok                                                              *)
ResultOk(r) == IF r.kind = "Ok" THEN Some(r.val) ELSE None

IsCont(bytes, i) == i <= Len(bytes) /\ bytes[i] >= 128 /\ bytes[i] <= 191

(* Whether a byte string is well-formed UTF-8, as read_to_string and       *)
(* str::from_utf8 decide it.                                               *)
RECURSIVE Utf8Valid(_)
Utf8Valid(bytes) ==
    IF bytes = <<>> THEN TRUE
    ELSE LET b == bytes[1]
             rest(n) == SubSeq(bytes, n + 1, Len(bytes))
         IN  IF b < 128 THEN Utf8Valid(rest(1))
             ELSE IF b >= 194 /\ b <= 223
                  THEN IsCont(bytes, 2) /\ Utf8Valid(rest(2))
             ELSE IF b >= 224 /\ b <= 239
                  THEN /\ IsCont(bytes, 2) /\ IsCont(bytes, 3)
                       /\ (b = 224 => bytes[2] >= 160)
                       /\ (b = 237 => bytes[2] <= 159)
                       /\ Utf8Valid(rest(3))
             ELSE IF b >= 240 /\ b <= 244
                  THEN /\ IsCont(bytes, 2) /\ IsCont(bytes, 3) /\ IsCont(bytes, 4)
                       /\ (b = 240 => bytes[2] >= 144)
                       /\ (b = 244 => bytes[2] <= 143)
                       /\ Utf8Valid(rest(4))
             ELSE FALSE

Backends == {"Wgsl", "Spirv"}

(* A path is the sequence of its components.                               *)
ShaderPath == <<"shaders", "main.wgsl">>

(* util::name_from_path: the last component, if there is one.              *)
name_from_path(path) == IF path = <<>> THEN None ELSE Some(path[Len(path)])

UnwrapOrDefault(o) == IF IsSome(o) THEN Unwrap(o) ELSE ""

(* read_shader_source that reads text as bytes, without decoding it.       *)
read_shader_source_lossy(f, backend) ==
    IF f = None THEN Err("io")
    ELSE Ok(Unwrap(f))

(* read_shader_source: read_to_string for Wgsl, read for Spirv.            *)
read_shader_source(f, backend) ==
    IF f = None THEN Err("io")
    ELSE IF backend = "Wgsl"
         THEN IF Utf8Valid(Unwrap(f)) THEN Ok(Unwrap(f)) ELSE Err("io")
         ELSE Ok(Unwrap(f))

(* ShaderSource::load, reading what the file system holds at the path.     *)
load(path, backend, f) ==
    [metadata |-> [name |-> UnwrapOrDefault(name_from_path(path)),
                   path |-> path,
                   backend |-> backend],
     source |-> ResultOk(read_shader_source(f, backend))]

(* ShaderSource::reload                                                    *)
reload(self, f) == load(self.metadata.path, self.metadata.backend, f)

is_fallback(self) == self.source = None

make_fallback(self) == [self EXCEPT !.source = None]

backend(self) == self.metadata.backend

(* source_str that panics on a text source without payload.                *)
source_str_strict(self) ==
    IF backend(self) = "Wgsl"
    THEN IF self.source = None
         THEN Panic("source_str on a fallback source")
         ELSE IF Utf8Valid(Unwrap(self.source))
              THEN Ok(Some(Unwrap(self.source)))
              ELSE Panic("unwrap on Err: Utf8Error")
    ELSE Panic("Can't get source strings for binary Spir-V format")

(* ShaderSource::source_str: what it returns, or that it panics.           *)
source_str(self) ==
    IF backend(self) = "Wgsl"
    THEN IF self.source = None
         THEN Ok(None)
         ELSE IF Utf8Valid(Unwrap(self.source))
              THEN Ok(Some(Unwrap(self.source)))
              ELSE Panic("unwrap on Err: Utf8Error")
    ELSE Panic("Can't get source strings for binary Spir-V format")

(* The built-in placeholder program, assets/fallback.wgsl ("fn").          *)
FallbackWgsl == <<102, 110>>

(* ShaderSource::fallback_descriptor                                       *)
fallback_descriptor(self) ==
    [label |-> Some(self.metadata.name),
     source |-> [variant |-> "Wgsl", text |-> FallbackWgsl]]

(* descriptor that never looks at is_fallback.                             *)
descriptor_ignoring_fallback(self) ==
    IF backend(self) = "Wgsl"
    THEN LET s == source_str(self) IN
         IF s.kind = "Panic" THEN s
         ELSE IF s.val = None
              THEN Panic("unwrap on None")
              ELSE Ok([label |-> Some(self.metadata.name),
                       source |-> [variant |-> "Wgsl", text |-> Unwrap(s.val)]])
    ELSE Panic("not yet implemented")

(* descriptor that hands the placeholder to every binary source.           *)
descriptor_spirv_as_fallback(self) ==
    IF ~is_fallback(self) /\ backend(self) = "Wgsl"
    THEN descriptor_ignoring_fallback(self)
    ELSE Ok(fallback_descriptor(self))

(* ShaderSource::descriptor: the descriptor, or that building it panics.   *)
descriptor(self) ==
    IF ~is_fallback(self)
    THEN IF backend(self) = "Wgsl"
         THEN LET s == source_str(self) IN
              IF s.kind = "Panic" THEN s
              ELSE IF s.val = None
                   THEN Panic("unwrap on None")
                   ELSE Ok([label |-> Some(self.metadata.name),
                            source |-> [variant |-> "Wgsl",
                                        text |-> Unwrap(s.val)]])
         ELSE Panic("not yet implemented")
    ELSE Ok(fallback_descriptor(self))

(* The device.  An error scope holds the first error reported while it is  *)
(* the innermost one.                                                      *)
push_error_scope(scopes) == Append(scopes, None)

report_error(scopes, error) ==
    IF scopes # <<>> /\ scopes[Len(scopes)] = None
    THEN [scopes EXCEPT ![Len(scopes)] = Some(error)]
    ELSE scopes

pop_error_scope(scopes) ==
    [captured |-> scopes[Len(scopes)],
     scopes |-> SubSeq(scopes, 1, Len(scopes) - 1)]

(* Whether the device's validation accepts a program: the placeholder      *)
(* always, any other text as the device decides (verdict).                 *)
DeviceAccepts(program, verdict) == program = FallbackWgsl \/ verdict

ValidationError(program) == [kind |-> "Validation", program |-> program]

(* device.create_shader_module: the module handle, and the scopes after    *)
(* the validation of its program.                                          *)
create_shader_module(scopes, desc, verdict) ==
    [module |-> [label |-> desc.label, program |-> desc.source.text],
     scopes |-> IF DeviceAccepts(desc.source.text, verdict)
                THEN scopes
                ELSE report_error(scopes, ValidationError(desc.source.text))]

(* The entries of deviceCalls: a call and what the device answered.        *)
PushCall == [fn |-> "push_error_scope"]
PopCall(captured) == [fn |-> "pop_error_scope", captured |-> captured]
ModuleCall(desc, module) ==
    [fn |-> "create_shader_module", desc |-> desc, module |-> module]

(* create that drops what the scope captured.                              *)
create_always_ok(scopes, self, verdict) ==
    LET pushed == push_error_scope(scopes)
        d == descriptor(self)
    IN  IF d.kind = "Panic"
        THEN [ret |-> d, scopes |-> pushed, calls |-> <<PushCall>>]
        ELSE LET made == create_shader_module(pushed, d.val, verdict)
                 popped == pop_error_scope(made.scopes)
             IN  [ret |-> Ok(made.module),
                  scopes |-> popped.scopes,
                  calls |-> <<PushCall, ModuleCall(d.val, made.module),
                              PopCall(popped.captured)>>]

(* create: the result (or the panic), the device's scopes afterwards and   *)
(* the device calls issued.  A panic in descriptor() unwinds out of        *)
(* create after the push and before the pop.                               *)
create(scopes, self, verdict) ==
    LET pushed == push_error_scope(scopes)
        d == descriptor(self)
    IN  IF d.kind = "Panic"
        THEN [ret |-> d, scopes |-> pushed, calls |-> <<PushCall>>]
        ELSE LET made == create_shader_module(pushed, d.val, verdict)
                 popped == pop_error_scope(made.scopes)
             IN  [ret |-> IF IsSome(popped.captured)
                          THEN Err([variant |-> "Wgpu",
                                    inner |-> Unwrap(popped.captured)])
                          ELSE Ok(made.module),
                  scopes |-> popped.scopes,
                  calls |-> <<PushCall, ModuleCall(d.val, made.module),
                              PopCall(popped.captured)>>]

(* create_or_fallback that retries without make_fallback.                  *)
create_or_fallback_keeping_source(scopes, self, verdict1, verdict2) ==
    LET first == create(scopes, self, verdict1) IN
    IF first.ret.kind = "Panic"
    THEN [ret |-> first.ret, self |-> self, scopes |-> first.scopes,
          calls |-> first.calls]
    ELSE IF first.ret.kind = "Ok"
    THEN [ret |-> Ok([module |-> first.ret.val, error |-> None]),
          self |-> self, scopes |-> first.scopes, calls |-> first.calls]
    ELSE LET second == create(first.scopes, self, verdict2) IN
         [ret |-> IF second.ret.kind = "Panic" THEN second.ret
                  ELSE IF second.ret.kind = "Err"
                       THEN Panic("unwrap on Err")
                       ELSE Ok([module |-> second.ret.val,
                                error |-> Some(first.ret.err)]),
          self |-> self,
          scopes |-> second.scopes,
          calls |-> first.calls \o second.calls]

(* create_or_fallback: create; on an error make_fallback, create again and *)
(* unwrap.  verdict1 and verdict2 are the device's verdicts on the two     *)
(* module creations.                                                       *)
create_or_fallback(scopes, self, verdict1, verdict2) ==
    LET first == create(scopes, self, verdict1) IN
    IF first.ret.kind = "Panic"
    THEN [ret |-> first.ret, self |-> self, scopes |-> first.scopes,
          calls |-> first.calls]
    ELSE IF first.ret.kind = "Ok"
    THEN [ret |-> Ok([module |-> first.ret.val, error |-> None]),
          self |-> self, scopes |-> first.scopes, calls |-> first.calls]
    ELSE LET fallen == make_fallback(self)
             second == create(first.scopes, fallen, verdict2)
         IN  [ret |-> IF second.ret.kind = "Panic" THEN second.ret
                      ELSE IF second.ret.kind = "Err"
                           THEN Panic("unwrap on Err")
                           ELSE Ok([module |-> second.ret.val,
                                    error |-> Some(first.ret.err)]),
              self |-> fallen,
              scopes |-> second.scopes,
              calls |-> first.calls \o second.calls]

----------------------------------------------------------------------------
(* The shader operations as actions.  call records the operation, whether  *)
(* the source it was invoked on was in fallback state, and how many error  *)
(* scopes the device held at that moment.  A panic ends the run.           *)

Running == ret.kind # "Panic"

ShaderCall(op) ==
    [op |-> op,
     wasFallback |-> IF source = None THEN None
                     ELSE Some(is_fallback(Unwrap(source))),
     scopes |-> Len(errorScopes)]

Load ==
    /\ Running
    /\ \E b \in Backends :
        /\ source' = Some(load(ShaderPath, b, file))
        /\ call' = ShaderCall("load")
    /\ ret' = Ok(None)
    /\ deviceCalls' = <<>>
    /\ UNCHANGED <<file, errorScopes, otherVars>>

Reload ==
    /\ Running
    /\ source # None
    /\ source' = Some(reload(Unwrap(source), file))
    /\ call' = ShaderCall("reload")
    /\ ret' = Ok(None)
    /\ deviceCalls' = <<>>
    /\ UNCHANGED <<file, errorScopes, otherVars>>

MakeFallback ==
    /\ Running
    /\ source # None
    /\ source' = Some(make_fallback(Unwrap(source)))
    /\ call' = ShaderCall("make_fallback")
    /\ ret' = Ok(None)
    /\ deviceCalls' = <<>>
    /\ UNCHANGED <<file, errorScopes, otherVars>>

SourceStr ==
    /\ Running
    /\ source # None
    /\ call' = ShaderCall("source_str")
    /\ ret' = source_str(Unwrap(source))
    /\ deviceCalls' = <<>>
    /\ UNCHANGED <<file, source, errorScopes, otherVars>>

Create ==
    /\ Running
    /\ source # None
    /\ \E verdict \in BOOLEAN :
        LET r == create(errorScopes, Unwrap(source), verdict) IN
        /\ call' = ShaderCall("create")
        /\ ret' = r.ret
        /\ errorScopes' = r.scopes
        /\ deviceCalls' = r.calls
    /\ UNCHANGED <<file, source, otherVars>>

CreateOrFallback ==
    /\ Running
    /\ source # None
    /\ \E verdict1 \in BOOLEAN, verdict2 \in BOOLEAN :
        LET r == create_or_fallback(errorScopes, Unwrap(source),
                                    verdict1, verdict2) IN
        /\ call' = ShaderCall("create_or_fallback")
        /\ ret' = r.ret
        /\ source' = Some(r.self)
        /\ errorScopes' = r.scopes
        /\ deviceCalls' = r.calls
    /\ UNCHANGED <<file, otherVars>>

(* The environment: the file at the path is written, or deleted.           *)
WriteFile ==
    /\ Running
    /\ \E bytes \in FileContents : file' = Some(bytes)
    /\ file' # file
    /\ UNCHANGED <<call, ret, deviceCalls, source, errorScopes, otherVars>>

DeleteFile ==
    /\ Running
    /\ file # None
    /\ file' = None
    /\ UNCHANGED <<call, ret, deviceCalls, source, errorScopes, otherVars>>

InitShader ==
    /\ call = NoCall
    /\ ret = NoRet
    /\ deviceCalls = <<>>
    /\ file \in FileStates
    /\ source = None
    /\ errorScopes \in SeqsUpTo({None}, MaxOuterScopes)
    /\ FreshEncoder

NextShader ==
    \/ Load
    \/ Reload
    \/ MakeFallback
    \/ SourceStr
    \/ Create
    \/ CreateOrFallback
    \/ WriteFile
    \/ DeleteFile

SpecShader == InitShader /\ [][NextShader]_vars

----------------------------------------------------------------------------
(* Claims about the shader source manager and the shader compiler, checked *)
(* under SpecShader.                                                       *)

(* The file at the path exists and decodes in the dialect: as UTF-8 text   *)
(* for Wgsl, as bytes for Spirv.                                           *)
Decodes(f, dialect) ==
    /\ f # None
    /\ dialect = "Wgsl" => Utf8Valid(Unwrap(f))

Src == Unwrap(source)

(* C3: after load and after every reload, whatever deletions, writes,      *)
(* make_fallback calls and reloads came before, is_fallback() is false     *)
(* exactly when the file at the path existed and decoded at that moment,   *)
(* the payload is then the file's bytes, and load and reload return        *)
(* normally.                                                               *)
C3_FallbackTracksFile ==
    [][(Load \/ Reload) =>
          /\ ret'.kind = "Ok"
          /\ is_fallback(Unwrap(source'))
               = ~Decodes(file, backend(Unwrap(source')))
          /\ ~is_fallback(Unwrap(source'))
               => Unwrap(source').source = Some(Unwrap(file))]_vars

(* A reload found the file gone (or no longer text) and moved a loaded     *)
(* source to fallback.                                                     *)
C3_Witness ==
    /\ call.op = "reload"
    /\ call.wasFallback = Some(FALSE)
    /\ is_fallback(Src)
    /\ ~Decodes(file, backend(Src))

SourceStrOnFallback ==
    call.op = "source_str" /\ call.wasFallback = Some(TRUE)

CreateOrFallbackDone == call.op = "create_or_fallback"

(* The first module creation of the call was rejected by the device.       *)
FirstAttemptFailed ==
    /\ Len(deviceCalls) >= 3
    /\ deviceCalls[3].fn = "pop_error_scope"
    /\ deviceCalls[3].captured # None

(* C5: create_or_fallback on a loaded text source whose program fails      *)
(* validation returns a module (the placeholder's) with Some(the error of  *)
(* the first attempt) and leaves the source in fallback state; called on a *)
(* source in fallback state it returns the placeholder's module with no    *)
(* error and leaves the source in fallback state.                          *)
C5_FallbackThenClean ==
    /\ ( /\ CreateOrFallbackDone
         /\ call.wasFallback = Some(FALSE)
         /\ backend(Src) = "Wgsl"
         /\ FirstAttemptFailed )
       => /\ ret.kind = "Ok"
          /\ ret.val.error = Some([variant |-> "Wgpu",
                                   inner |-> Unwrap(deviceCalls[3].captured)])
          /\ Unwrap(ret.val.error).inner.program = deviceCalls[2].desc.source.text
          /\ ret.val.module.program = FallbackWgsl
          /\ is_fallback(Src)
    /\ (CreateOrFallbackDone /\ call.wasFallback = Some(TRUE))
       => /\ ret.kind = "Ok"
          /\ ret.val.error = None
          /\ ret.val.module.program = FallbackWgsl
          /\ is_fallback(Src)

(* A loaded text source failed validation and the call fell back.          *)
C5_Witness ==
    /\ CreateOrFallbackDone
    /\ call.wasFallback = Some(FALSE)
    /\ backend(Src) = "Wgsl"
    /\ FirstAttemptFailed
    /\ ret.kind = "Ok"
    /\ ret.val.error # None

(* C6 as claimed: create_or_fallback returns a module and does not panic,  *)
(* for every source state, dialect and device verdict.                     *)
C6_NeverFails ==
    CreateOrFallbackDone => ret.kind = "Ok"

(* C6: create_or_fallback returns a module without panicking for every     *)
(* text source and for every source in fallback state, whatever the device *)
(* decides about the payload; on a loaded binary source, and only there,   *)
(* it panics.                                                              *)
C6_FailsOnlyOnLoadedSpirv ==
    CreateOrFallbackDone =>
        /\ ret.kind \in {"Ok", "Panic"}
        /\ ret.kind = "Panic"
             <=> (backend(Src) = "Spirv" /\ call.wasFallback = Some(FALSE))
        /\ ret.kind = "Ok" =>
             \/ ret.val.module.program = FallbackWgsl
             \/ /\ ~is_fallback(Src)
                /\ ret.val.module.program = Unwrap(Src.source)

(* A binary source in fallback state got the placeholder's module.         *)
C6_Witness ==
    /\ CreateOrFallbackDone
    /\ backend(Src) = "Spirv"
    /\ call.wasFallback = Some(TRUE)
    /\ ret.kind = "Ok"

CreateDone == call.op = "create"

(* C7 as claimed: create on a binary source, loaded or in fallback state,  *)
(* signals the unimplemented failure and makes no module.                  *)
C7_SpirvUnimplemented ==
    (CreateDone /\ backend(Src) = "Spirv") =>
        /\ ret = Panic("not yet implemented")
        /\ \A i \in 1..Len(deviceCalls) :
               deviceCalls[i].fn # "create_shader_module"

(* C7: create on a loaded binary source signals the unimplemented failure  *)
(* and makes no module; on a binary source in fallback state it compiles   *)
(* the placeholder and returns its module.                                 *)
C7_LoadedSpirvUnimplemented ==
    (CreateDone /\ backend(Src) = "Spirv") =>
        IF call.wasFallback = Some(FALSE)
        THEN /\ ret = Panic("not yet implemented")
             /\ \A i \in 1..Len(deviceCalls) :
                    deviceCalls[i].fn # "create_shader_module"
        ELSE /\ ret.kind = "Ok"
             /\ ret.val.program = FallbackWgsl

(* create was called on a loaded binary source.                            *)
C7_Witness ==
    /\ CreateDone
    /\ backend(Src) = "Spirv"
    /\ call.wasFallback = Some(FALSE)
    /\ ret.kind = "Panic"

(* The call popped its error scope / the scope had captured an error.      *)
Popped == Len(deviceCalls) = 3 /\ deviceCalls[3].fn = "pop_error_scope"
Captured == Popped /\ deviceCalls[3].captured # None

(* C8: create returns the error result exactly when a validation error was *)
(* captured between its push and its pop, and then that error; when it     *)
(* popped the scope with nothing captured it returns the module just made. *)
(* A source in fallback state is compiled from the placeholder, a loaded   *)
(* one from its payload.                                                   *)
C8_ErrIffCaptured ==
    CreateDone =>
        /\ ret.kind = "Err" <=> Captured
        /\ ret.kind = "Err" =>
             ret.err = [variant |-> "Wgpu",
                        inner |-> Unwrap(deviceCalls[3].captured)]
        /\ (Popped /\ ~Captured) => ret = Ok(deviceCalls[2].module)
        /\ ret.kind = "Ok" => ~Captured
        /\ call.wasFallback = Some(TRUE) =>
             /\ Popped
             /\ deviceCalls[2].desc.source.text = FallbackWgsl
             /\ deviceCalls[2].module.program = FallbackWgsl
        /\ (call.wasFallback = Some(FALSE) /\ Popped) =>
             deviceCalls[2].desc.source.text = Unwrap(Src.source)

(* create returned the error its scope captured.                           *)
C8_Witness ==
    /\ CreateDone
    /\ Captured
    /\ ret.kind = "Err"

(* C14: the error scopes are balanced.  Every create and every            *)
(* create_or_fallback, however it ends (module, validation error, retry    *)
(* on the placeholder, panic while the descriptor is built), leaves the    *)
(* device with as many error scopes as it held before the call, and every  *)
(* module creation sits between a push and a pop.                          *)
C14_ScopesBalanced ==
    (CreateDone \/ CreateOrFallbackDone) =>
        /\ Len(errorScopes) = call.scopes
        /\ \A i \in 1..Len(deviceCalls) :
              deviceCalls[i].fn = "create_shader_module" =>
                  /\ i > 1 /\ deviceCalls[i - 1].fn = "push_error_scope"
                  /\ i < Len(deviceCalls)
                  /\ deviceCalls[i + 1].fn = "pop_error_scope"

----------------------------------------------------------------------------
(* texture.rs                                                              *)

MaxDim == 2        \* largest width, height or depth of a texture or image
MaxRawLen == 1     \* longest raw texture file, in bytes

Formats ==
    {"R8Unorm", "R16Unorm", "Rgba8Unorm", "Rgba8UnormSrgb", "Rgba16Unorm",
     "Rgba32Float", "Bc1RgbaUnorm", "Depth24Plus", "Depth24PlusStencil8"}

(* wgpu::TextureFormat::block_copy_size(None): the bytes of one texel (of  *)
(* one block for a compressed format); none for a depth format whose size  *)
(* depends on the aspect or on the driver.                                 *)
block_copy_size(format) ==
    CASE format = "R8Unorm" -> Some(1)
      [] format = "R16Unorm" -> Some(2)
      [] format = "Rgba8Unorm" -> Some(4)
      [] format = "Rgba8UnormSrgb" -> Some(4)
      [] format = "Rgba16Unorm" -> Some(8)
      [] format = "Rgba32Float" -> Some(16)
      [] format = "Bc1RgbaUnorm" -> Some(8)
      [] format = "Depth24Plus" -> None
      [] format = "Depth24PlusStencil8" -> None

InvalidFormat(format) ==
    [variant |-> "Texture", inner |-> [variant |-> "InvalidFormat",
                                       format |-> format]]
IoError == [variant |-> "Io"]

Dimensions == {"D1", "D2", "D3"}

Extents ==
    [width : 1..MaxDim, height : 1..MaxDim, depth_or_array_layers : 1..MaxDim]

TextureDescriptors ==
    [format : Formats, dimension : Dimensions, size : Extents]

CreateTextureCall(desc) == [fn |-> "create_texture", desc |-> desc]
WriteTextureCall(texture, bytes, layout, size) ==
    [fn |-> "write_texture", texture |-> texture, bytes |-> bytes,
     layout |-> layout, size |-> size]

(* A texture handle is known by the descriptor it was created from.        *)
Texture(desc) == [desc |-> desc]

(* rows_per_image that also asks for more than one layer.                  *)
rows_per_image_deep(desc) ==
    IF desc.dimension = "D3" /\ desc.size.depth_or_array_layers > 1
    THEN Some(desc.size.height)
    ELSE None

rows_per_image(desc) ==
    IF desc.dimension = "D3" THEN Some(desc.size.height) ELSE None

(* load_raw that writes the texture before it asks for the pixel size.     *)
load_raw_writing_first(f, desc) ==
    LET bpp == block_copy_size(desc.format) IN
    IF f = None
    THEN [ret |-> Err(IoError), calls |-> <<CreateTextureCall(desc)>>]
    ELSE IF bpp = None
    THEN [ret |-> Err(InvalidFormat(desc.format)),
          calls |-> <<CreateTextureCall(desc),
                      WriteTextureCall(Texture(desc), Unwrap(f),
                          [offset |-> 0, bytes_per_row |-> None,
                           rows_per_image |-> rows_per_image(desc)],
                          desc.size)>>]
    ELSE [ret |-> Ok(Texture(desc)),
          calls |-> <<CreateTextureCall(desc),
                      WriteTextureCall(Texture(desc), Unwrap(f),
                          [offset |-> 0,
                           bytes_per_row |-> Some(Unwrap(bpp) * desc.size.width),
                           rows_per_image |-> rows_per_image(desc)],
                          desc.size)>>]

(* load_raw: create the texture, read the file, size the rows, write.  f   *)
(* is what the file system holds at the path (None: the read fails).  The  *)
(* widths drawn keep bytes-per-pixel times width far below 2^32.           *)
load_raw(f, desc) ==
    LET bpp == block_copy_size(desc.format) IN
    IF f = None
    THEN [ret |-> Err(IoError), calls |-> <<CreateTextureCall(desc)>>]
    ELSE IF bpp = None
    THEN [ret |-> Err(InvalidFormat(desc.format)),
          calls |-> <<CreateTextureCall(desc)>>]
    ELSE [ret |-> Ok(Texture(desc)),
          calls |-> <<CreateTextureCall(desc),
                      WriteTextureCall(Texture(desc), Unwrap(f),
                          [offset |-> 0,
                           bytes_per_row |-> Some(Unwrap(bpp) * desc.size.width),
                           rows_per_image |-> rows_per_image(desc)],
                          desc.size)>>]

(* A decoded image (image::DynamicImage): its layout, its size and its     *)
(* pixels in row order, each pixel the samples of its channels.  An 8-bit  *)
(* sample is 0..255, a 16-bit one 0..65535; a float sample is 0 or 1,      *)
(* standing for 0.0 and 1.0.                                               *)
ImageLayouts ==
    {"ImageLuma8", "ImageLuma16", "ImageRgba8", "ImageRgba16",
     "ImageRgba32F", "ImageRgb8"}

Channels(layout) ==
    CASE layout \in {"ImageLuma8", "ImageLuma16"} -> 1
      [] layout = "ImageRgb8" -> 3
      [] OTHER -> 4

SampleBits(layout) ==
    CASE layout \in {"ImageLuma8", "ImageRgba8", "ImageRgb8"} -> 8
      [] layout \in {"ImageLuma16", "ImageRgba16"} -> 16
      [] OTHER -> 32

MaxSample(bits) == CASE bits = 8 -> 255 [] bits = 16 -> 65535 [] OTHER -> 1

(* The two pixels the images drawn are made of.                            *)
Pixels(layout) ==
    {[c \in 1..Channels(layout) |-> MaxSample(SampleBits(layout))],
     [c \in 1..Channels(layout) |->
        IF c % 2 = 1 THEN 0 ELSE MaxSample(SampleBits(layout))]}

Images ==
    UNION {[layout : {l}, width : {w}, height : {h},
            pixels : [1..(w * h) -> Pixels(l)]] :
              l \in ImageLayouts, w \in 1..MaxDim, h \in 1..MaxDim}

RECURSIVE Flatten(_)
Flatten(seqs) ==
    IF seqs = <<>> THEN <<>> ELSE Head(seqs) \o Flatten(Tail(seqs))

(* The image crate's sample conversions between 8-bit, 16-bit and float.   *)
ConvertSample(x, from, to) ==
    IF from = to THEN x
    ELSE IF from = 8 /\ to = 16 THEN x * 257
    ELSE IF from = 16 /\ to = 8 THEN (x + 128) \div 257
    ELSE IF from = 32 THEN x * MaxSample(to)
    ELSE x \div MaxSample(from)

(* One pixel as RGBA: luma is copied to the three colours, a missing       *)
(* alpha is opaque.                                                        *)
PixelToRgba(px, from, to) ==
    LET c(i) == ConvertSample(px[i], from, to) IN
    CASE Len(px) = 1 -> <<c(1), c(1), c(1), MaxSample(to)>>
      [] Len(px) = 3 -> <<c(1), c(2), c(3), MaxSample(to)>>
      [] OTHER -> <<c(1), c(2), c(3), c(4)>>

(* DynamicImage::to_rgba8 / to_rgba16 / to_rgba32f followed by into_raw:   *)
(* the samples of the converted image.                                     *)
to_rgba(image, bits) ==
    Flatten([i \in 1..Len(image.pixels) |->
               PixelToRgba(image.pixels[i], SampleBits(image.layout), bits)])

(* buf.as_raw(): the samples of the image as stored.                       *)
as_raw(image) == Flatten(image.pixels)

(* bytemuck::cast_slice to &[u8] on a little-endian target.                *)
SampleBytes(x, bits) ==
    CASE bits = 8 -> <<x>>
      [] bits = 16 -> <<x % 256, x \div 256>>
      [] OTHER -> IF x = 0 THEN <<0, 0, 0, 0>> ELSE <<0, 0, 128, 63>>

cast_slice(samples, bits) ==
    Flatten([i \in 1..Len(samples) |-> SampleBytes(samples[i], bits)])

(* select_bytes that converts nothing: a layout that is not the target's   *)
(* own is rejected.                                                        *)
select_bytes_strict(image, target_format) ==
    LET own == CASE target_format = "R8Unorm" -> "ImageLuma8"
                 [] target_format = "R16Unorm" -> "ImageLuma16"
                 [] target_format \in {"Rgba8Unorm", "Rgba8UnormSrgb"} -> "ImageRgba8"
                 [] target_format = "Rgba16Unorm" -> "ImageRgba16"
                 [] target_format = "Rgba32Float" -> "ImageRgba32F"
                 [] OTHER -> "none"
    IN  IF image.layout = own
        THEN Ok(cast_slice(as_raw(image), SampleBits(image.layout)))
        ELSE Err(InvalidFormat(target_format))

(* The match of from_dynamic_image: the bytes to upload, or the            *)
(* invalid-format error.                                                   *)
select_bytes(image, target_format) ==
    CASE target_format = "R8Unorm" ->
            IF image.layout = "ImageLuma8"
            THEN Ok(as_raw(image))
            ELSE Err(InvalidFormat(target_format))
      [] target_format = "R16Unorm" ->
            IF image.layout = "ImageLuma16"
            THEN Ok(cast_slice(as_raw(image), 16))
            ELSE Err(InvalidFormat(target_format))
      [] target_format \in {"Rgba8Unorm", "Rgba8UnormSrgb"} ->
            IF image.layout = "ImageRgba8"
            THEN Ok(cast_slice(as_raw(image), 8))
            ELSE Ok(to_rgba(image, 8))
      [] target_format = "Rgba16Unorm" ->
            IF image.layout = "ImageRgba16"
            THEN Ok(cast_slice(as_raw(image), 16))
            ELSE Ok(cast_slice(to_rgba(image, 16), 16))
      [] target_format = "Rgba32Float" ->
            IF image.layout = "ImageRgba32F"
            THEN Ok(cast_slice(as_raw(image), 32))
            ELSE Ok(cast_slice(to_rgba(image, 32), 32))
      [] OTHER -> Err(InvalidFormat(target_format))

ImageTextureDescriptor(image, label, target_format, usage) ==
    [label |-> Some(label),
     size |-> [width |-> image.width, height |-> image.height,
               depth_or_array_layers |-> 1],
     mip_level_count |-> 1,
     sample_count |-> 1,
     dimension |-> "D2",
     format |-> target_format,
     usage |-> usage]

(* from_dynamic_image: select the bytes, size the rows, create the         *)
(* texture, write it.                                                      *)
from_dynamic_image(image, label, target_format, usage) ==
    LET selected == select_bytes(image, target_format)
        bpp == block_copy_size(target_format)
        desc == ImageTextureDescriptor(image, label, target_format, usage)
    IN  IF selected.kind = "Err"
        THEN [ret |-> selected, calls |-> <<>>]
        ELSE IF bpp = None
        THEN [ret |-> Err(InvalidFormat(target_format)), calls |-> <<>>]
        ELSE [ret |-> Ok(Texture(desc)),
              calls |-> <<CreateTextureCall(desc),
                          WriteTextureCall(Texture(desc), selected.val,
                              [offset |-> 0,
                               bytes_per_row |-> Some(Unwrap(bpp) * image.width),
                               rows_per_image |-> None],
                              desc.size)>>]

----------------------------------------------------------------------------
(* wgpu::Texture::size: the extent the texture was created with.           *)
size(texture) == texture.desc.size

(* wgpu::Texture::as_image_copy: the whole texture, from its first texel   *)
(* of its first mip level.                                                 *)
as_image_copy(texture) ==
    [texture |-> texture, mip_level |-> 0, origin |-> <<0, 0, 0>>,
     aspect |-> "All"]

CopyTextureToTextureCall(src, dst, copy_size) ==
    [fn |-> "copy_texture_to_texture", source |-> src, destination |-> dst,
     copy_size |-> copy_size]

ErrorRecord(msg) == [level |-> "error", msg |-> msg]

SizeMismatch == "Attempted to copy textures of different sizes"

(* copy that gives up when the sizes differ.                               *)
copy_rejecting(enc, src, dst) ==
    IF size(src) # size(dst)
    THEN [ret |-> Ok(None), encoder |-> enc,
          log |-> <<ErrorRecord(SizeMismatch)>>]
    ELSE [ret |-> Ok(None),
          encoder |-> Append(enc, CopyTextureToTextureCall(
                          as_image_copy(src), as_image_copy(dst), size(src))),
          log |-> <<>>]

(* copy: log when the sizes differ, then record the copy of the source's   *)
(* whole extent either way.  enc is what the encoder holds already.        *)
copy(enc, src, dst) ==
    [ret |-> Ok(None),
     encoder |-> Append(enc, CopyTextureToTextureCall(
                     as_image_copy(src), as_image_copy(dst), size(src))),
     log |-> IF size(src) # size(dst)
             THEN <<ErrorRecord(SizeMismatch)>>
             ELSE <<>>]

(* The uploader keeps no state: a run is one invocation, drawn by Init     *)
(* with what the file system holds at its path, and the action that        *)
(* carries it out.                                                         *)

RawFiles == {None} \cup {Some(bytes) : bytes \in SeqsUpTo({0, 255}, MaxRawLen)}

Usages == {"TEXTURE_BINDING|COPY_DST"}

(* The textures handed to copy: one format, every dimension and extent.   *)
CopyTextures ==
    {Texture([format |-> "Rgba8Unorm", dimension |-> d, size |-> e]) :
        d \in Dimensions, e \in Extents}

TextureCalls ==
    {[op |-> "load_raw", file |-> f, desc |-> d] :
        f \in RawFiles, d \in TextureDescriptors}
    \cup
    {[op |-> "from_dynamic_image", image |-> i, label |-> l,
      target_format |-> t, texture_usage |-> u] :
        i \in Images, l \in Labels, t \in Formats, u \in Usages}
    \cup
    {[op |-> "copy", src |-> a, dst |-> b] :
        a \in CopyTextures, b \in CopyTextures}

LoadRaw ==
    /\ call.op = "load_raw"
    /\ ret = NoRet
    /\ LET r == load_raw(call.file, call.desc) IN
        /\ ret' = r.ret
        /\ deviceCalls' = r.calls
    /\ UNCHANGED <<call, shaderVars, otherVars>>

FromDynamicImage ==
    /\ call.op = "from_dynamic_image"
    /\ ret = NoRet
    /\ LET r == from_dynamic_image(call.image, call.label,
                                   call.target_format, call.texture_usage) IN
        /\ ret' = r.ret
        /\ deviceCalls' = r.calls
    /\ UNCHANGED <<call, shaderVars, otherVars>>

Copy ==
    /\ call.op = "copy"
    /\ ret = NoRet
    /\ LET r == copy(encoder, call.src, call.dst) IN
        /\ ret' = r.ret
        /\ encoder' = r.encoder
        /\ log' = r.log
    /\ UNCHANGED <<call, deviceCalls, shaderVars, started>>

InitTexture ==
    /\ call \in TextureCalls
    /\ ret = NoRet
    /\ deviceCalls = <<>>
    /\ file = None
    /\ source = None
    /\ errorScopes = <<>>
    /\ FreshEncoder

NextTexture ==
    \/ LoadRaw
    \/ FromDynamicImage
    \/ Copy

SpecTexture == InitTexture /\ [][NextTexture]_vars

----------------------------------------------------------------------------
(* Claims about the texture uploader, checked under SpecTexture.           *)

LoadRawDone == call.op = "load_raw" /\ ret # NoRet
FromImageDone == call.op = "from_dynamic_image" /\ ret # NoRet

IsInvalidFormat(r) ==
    /\ r.kind = "Err"
    /\ r.err.variant = "Texture"

IssuedWrite ==
    \E i \in 1..Len(deviceCalls) : deviceCalls[i].fn = "write_texture"

(* C9: load_raw with a format that has no per-pixel byte size, on a file   *)
(* that can be read, fails with the invalid-format error naming the format *)
(* and issues no texture write on the queue.                               *)
C9_NoWriteOnInvalidFormat ==
    ( /\ LoadRawDone
      /\ call.file # None
      /\ block_copy_size(call.desc.format) = None )
    => /\ ret = Err(InvalidFormat(call.desc.format))
       /\ ~IssuedWrite

(* load_raw was handed a readable file and a depth format.                 *)
C9_Witness ==
    /\ LoadRawDone
    /\ call.file # None
    /\ call.desc.format = "Depth24Plus"
    /\ IsInvalidFormat(ret)

(* C10: in both upload paths, a call that returns the invalid-format error *)
(* has issued no device and no queue operation.                            *)
C10_InvalidFormatBeforeDevice ==
    ((LoadRawDone \/ FromImageDone) /\ IsInvalidFormat(ret))
        => deviceCalls = <<>>


(* The bytes handed to queue.write_texture by the call.                    *)
WrittenBytes == deviceCalls[2].bytes

Uploaded ==
    /\ ret.kind = "Ok"
    /\ Len(deviceCalls) = 2
    /\ deviceCalls[2].fn = "write_texture"

(* The pairs the spec lists: each target format with its own layout.       *)
Whitelisted(layout, target_format) ==
    \/ layout = "ImageLuma8" /\ target_format = "R8Unorm"
    \/ layout = "ImageLuma16" /\ target_format = "R16Unorm"
    \/ layout = "ImageRgba8" /\ target_format \in {"Rgba8Unorm", "Rgba8UnormSrgb"}
    \/ layout = "ImageRgba16" /\ target_format = "Rgba16Unorm"
    \/ layout = "ImageRgba32F" /\ target_format = "Rgba32Float"

(* The target formats whose arm converts an image of another layout.       *)
RgbaTargets ==
    {"Rgba8Unorm", "Rgba8UnormSrgb", "Rgba16Unorm", "Rgba32Float"}

(* C11 as claimed: an 8-bit-luma image requested as R8Unorm is uploaded    *)
(* byte for byte; requested as Rgba8Unorm it fails with the invalid-format *)
(* error; only the whitelisted pairs succeed and every other pair returns  *)
(* the invalid-format error.                                               *)
C11_OnlyWhitelistedPairs ==
    FromImageDone =>
        /\ (call.image.layout = "ImageLuma8" /\ call.target_format = "R8Unorm")
             => (Uploaded /\ WrittenBytes = Flatten(call.image.pixels))
        /\ (call.image.layout = "ImageLuma8" /\ call.target_format = "Rgba8Unorm")
             => IsInvalidFormat(ret)
        /\ Uploaded <=> Whitelisted(call.image.layout, call.target_format)
        /\ ~Uploaded => IsInvalidFormat(ret)

(* C11: an 8-bit-luma image requested as R8Unorm is uploaded byte for      *)
(* byte; requested as Rgba8Unorm it is uploaded converted, every pixel as  *)
(* luma, luma, luma, 255.  R8Unorm and R16Unorm succeed for their own      *)
(* layout only; the four RGBA targets succeed for every layout; every      *)
(* other pair returns the invalid-format error naming the target format.   *)
C11_WhitelistOrConversion ==
    FromImageDone =>
        /\ (call.image.layout = "ImageLuma8" /\ call.target_format = "R8Unorm")
             => (Uploaded /\ WrittenBytes = Flatten(call.image.pixels))
        /\ (call.image.layout = "ImageLuma8" /\ call.target_format = "Rgba8Unorm")
             => /\ Uploaded
                /\ Len(WrittenBytes) = 4 * Len(call.image.pixels)
                /\ \A i \in 1..Len(call.image.pixels) :
                     LET l == call.image.pixels[i][1] IN
                     SubSeq(WrittenBytes, 4 * i - 3, 4 * i) = <<l, l, l, 255>>
        /\ Uploaded <=>
             \/ Whitelisted(call.image.layout, call.target_format)
             \/ call.target_format \in RgbaTargets
        /\ ~Uploaded => ret = Err(InvalidFormat(call.target_format))

(* An 8-bit-luma image of two different pixels was requested as            *)
(* Rgba8Unorm and uploaded.                                                *)
C11_Witness ==
    /\ FromImageDone
    /\ call.image.layout = "ImageLuma8"
    /\ call.target_format = "Rgba8Unorm"
    /\ Len(call.image.pixels) >= 2
    /\ call.image.pixels[1] # call.image.pixels[2]
    /\ Uploaded

CopyDone == call.op = "copy" /\ ret # NoRet

(* C12: copy always records exactly one copy command, from the start of    *)
(* the source to the start of the destination and covering the source's    *)
(* full extent, and returns normally; it logs exactly one size-mismatch    *)
(* error when the two extents differ and nothing when they are equal.      *)
C12_OneCopyOneDiagnostic ==
    CopyDone =>
        /\ ret = Ok(None)
        /\ encoder = <<CopyTextureToTextureCall(as_image_copy(call.src),
                           as_image_copy(call.dst), size(call.src))>>
        /\ deviceCalls = <<>>
        /\ IF size(call.src) = size(call.dst)
           THEN log = <<>>
           ELSE log = <<ErrorRecord(SizeMismatch)>>

(* copy has run on a source larger than its destination.                   *)
C12_Witness ==
    /\ CopyDone
    /\ size(call.src).width > size(call.dst).width
    /\ Len(encoder) = 1
    /\ Len(log) = 1

(* The one texture write of a load_raw that succeeded.                     *)
RawWrite == deviceCalls[2]

RawUploaded ==
    /\ LoadRawDone
    /\ ret.kind = "Ok"

(* What every successful load_raw does apart from the rows per layer: it   *)
(* creates the texture, then writes the whole file once, from offset 0,    *)
(* over the full declared extent, with bytes per row the format's copy     *)
(* size times the declared width.                                          *)
SingleFullWrite ==
    /\ Len(deviceCalls) = 2
    /\ deviceCalls[1] = CreateTextureCall(call.desc)
    /\ RawWrite.fn = "write_texture"
    /\ RawWrite.texture = Texture(call.desc)
    /\ RawWrite.bytes = Unwrap(call.file)
    /\ RawWrite.size = call.desc.size
    /\ RawWrite.layout.offset = 0
    /\ RawWrite.layout.bytes_per_row =
           Some(Unwrap(block_copy_size(call.desc.format)) * call.desc.size.width)

Volumetric == call.desc.dimension = "D3"

(* C13 as stated: rows per layer is supplied exactly for a volumetric      *)
(* target of depth greater than 1, and is then the declared height.        *)
C13_RowsOnlyWhenDeep ==
    RawUploaded =>
        /\ SingleFullWrite
        /\ RawWrite.layout.rows_per_image =
              IF Volumetric /\ call.desc.size.depth_or_array_layers > 1
              THEN Some(call.desc.size.height)
              ELSE None

(* C13: a successful load_raw issues a single write over the full declared *)
(* extent with bytes per row the per-pixel size times the width, and rows  *)
(* per layer is supplied exactly when the target's dimension is D3, of any *)
(* depth, and is then the declared height; for D1 and D2 targets, layered  *)
(* ones included, it is omitted.                                           *)
C13_RowsForEveryVolume ==
    RawUploaded =>
        /\ SingleFullWrite
        /\ RawWrite.layout.rows_per_image =
              IF Volumetric THEN Some(call.desc.size.height) ELSE None

(* load_raw has uploaded a volumetric texture of depth 1 and height 2.     *)
C13_Witness ==
    /\ RawUploaded
    /\ Volumetric
    /\ call.desc.size.depth_or_array_layers = 1
    /\ call.desc.size.height = 2
    /\ RawWrite.layout.rows_per_image = Some(2)

----------------------------------------------------------------------------
(* profile.rs                                                              *)

MaxQueries == 2    \* TimeQuery objects constructed
MaxCommands == 4   \* commands recorded in the frame's encoder
MaxTick == 1       \* largest timestamp the device resolves

(* The n-th TimeQuery is known by its query set and its two buffers.       *)
QuerySet(n) == [query_set |-> n]
ResolveBuffer(n) == [resolve_buffer |-> n]
ReadbackBuffer(n) == [readback_buffer |-> n]

CreateQuerySetCall == [fn |-> "create_query_set", ty |-> "Timestamp", count |-> 2]
CreateBufferCall(bytes, usage) ==
    [fn |-> "create_buffer", size |-> bytes, usage |-> usage]

WriteTimestampCall(query_set, query_index) ==
    [fn |-> "write_timestamp", query_set |-> query_set,
     query_index |-> query_index]

(* TimeQuery::new, for the n-th TimeQuery of the run.                      *)
new(n) ==
    [self |-> [started |-> FALSE, query_set |-> QuerySet(n),
               resolve_buffer |-> ResolveBuffer(n),
               readback_buffer |-> ReadbackBuffer(n)],
     calls |-> <<CreateQuerySetCall,
                 CreateBufferCall(2 * 8, "QUERY_RESOLVE|COPY_SRC"),
                 CreateBufferCall(2 * 8, "MAP_READ|COPY_DST")>>]

(* The n-th TimeQuery as the variables hold it.                            *)
TimeQuery(n) == [new(n).self EXCEPT !.started = started[n]]

compute_timestamp_writes(self) ==
    [query_set |-> self.query_set,
     beginning_of_pass_write_index |-> Some(0),
     end_of_pass_write_index |-> Some(1)]

render_timestamp_writes(self) ==
    [query_set |-> self.query_set,
     beginning_of_pass_write_index |-> Some(0),
     end_of_pass_write_index |-> Some(1)]

StartedTwice == "Attempted to write a start timestamp more than once"
EndedUnstarted == "Attempted to write an end timestamp without first starting"

write_start_timestamp(self, enc) ==
    IF self.started
    THEN [ret |-> Panic(StartedTwice), self |-> self, encoder |-> enc]
    ELSE [ret |-> Ok(None),
          self |-> [self EXCEPT !.started = TRUE],
          encoder |-> Append(enc, WriteTimestampCall(self.query_set, 0))]

(* write_end_timestamp that leaves the flag set.                           *)
write_end_timestamp_keeping_flag(self, enc) ==
    IF ~self.started
    THEN [ret |-> Panic(EndedUnstarted), self |-> self, encoder |-> enc]
    ELSE [ret |-> Ok(None),
          self |-> self,
          encoder |-> Append(enc, WriteTimestampCall(self.query_set, 1))]

write_end_timestamp(self, enc) ==
    IF ~self.started
    THEN [ret |-> Panic(EndedUnstarted), self |-> self, encoder |-> enc]
    ELSE [ret |-> Ok(None),
          self |-> [self EXCEPT !.started = FALSE],
          encoder |-> Append(enc, WriteTimestampCall(self.query_set, 1))]

(* resolve: the two commands it records in the encoder it is handed.       *)
resolve(self, enc) ==
    enc \o <<[fn |-> "resolve_query_set", query_set |-> self.query_set,
              query_range |-> <<0, 2>>, destination |-> self.resolve_buffer,
              destination_offset |-> 0],
             [fn |-> "copy_buffer_to_buffer", source |-> self.resolve_buffer,
              source_offset |-> 0, destination |-> self.readback_buffer,
              destination_offset |-> 0, copy_size |-> 2 * 8]>>

BufferMapFailed == "Buffer map failed"

(* read: resolve in an encoder of its own, submit, map the readback buffer *)
(* and wait.  mapped is whether the device maps the buffer; time_start and *)
(* time_end are the two timestamps it holds, timestamp_period the          *)
(* nanoseconds per tick.  When the mapping fails the callback logs and     *)
(* sends nothing, so the receive fails and its unwrap panics.              *)
read(self, mapped, time_start, time_end, timestamp_period) ==
    LET issued ==
            <<[fn |-> "create_command_encoder"],
              [fn |-> "submit", commands |-> resolve(self, <<>>)],
              [fn |-> "map_async", buffer |-> self.readback_buffer,
               mode |-> "Read"],
              [fn |-> "poll", maintain |-> "Wait"],
              [fn |-> "unmap", buffer |-> self.readback_buffer]>>
    IN  IF mapped
        THEN [ret |-> Ok([nanos |-> (time_end - time_start) * timestamp_period]),
              calls |-> Append(issued, [fn |-> "get_timestamp_period"]),
              log |-> <<>>]
        ELSE [ret |-> Panic("unwrap on Err: RecvError"),
              calls |-> issued,
              log |-> <<ErrorRecord(BufferMapFailed)>>]

(* The profiling operations as actions, on any TimeQuery constructed so    *)
(* far and on one frame encoder.  A caller that catches a panic keeps its  *)
(* TimeQuery, so a run goes on after one.                                  *)

Queries == 1..Len(started)

ProfileCall(op, n) == [op |-> op, query |-> n]

New ==
    /\ Len(started) < MaxQueries
    /\ LET n == Len(started) + 1
           r == new(n)
       IN  /\ started' = Append(started, r.self.started)
           /\ call' = ProfileCall("new", n)
           /\ ret' = Ok(r.self)
           /\ deviceCalls' = r.calls
    /\ log' = <<>>
    /\ UNCHANGED <<encoder, shaderVars>>

ComputeTimestampWrites ==
    /\ \E n \in Queries :
        /\ call' = ProfileCall("compute_timestamp_writes", n)
        /\ ret' = Ok(compute_timestamp_writes(TimeQuery(n)))
    /\ deviceCalls' = <<>>
    /\ log' = <<>>
    /\ UNCHANGED <<encoder, started, shaderVars>>

RenderTimestampWrites ==
    /\ \E n \in Queries :
        /\ call' = ProfileCall("render_timestamp_writes", n)
        /\ ret' = Ok(render_timestamp_writes(TimeQuery(n)))
    /\ deviceCalls' = <<>>
    /\ log' = <<>>
    /\ UNCHANGED <<encoder, started, shaderVars>>

WriteStartTimestamp ==
    /\ Len(encoder) < MaxCommands
    /\ \E n \in Queries :
        LET r == write_start_timestamp(TimeQuery(n), encoder) IN
        /\ call' = ProfileCall("write_start_timestamp", n)
        /\ ret' = r.ret
        /\ started' = [started EXCEPT ![n] = r.self.started]
        /\ encoder' = r.encoder
    /\ deviceCalls' = <<>>
    /\ log' = <<>>
    /\ UNCHANGED shaderVars

WriteEndTimestamp ==
    /\ Len(encoder) < MaxCommands
    /\ \E n \in Queries :
        LET r == write_end_timestamp(TimeQuery(n), encoder) IN
        /\ call' = ProfileCall("write_end_timestamp", n)
        /\ ret' = r.ret
        /\ started' = [started EXCEPT ![n] = r.self.started]
        /\ encoder' = r.encoder
    /\ deviceCalls' = <<>>
    /\ log' = <<>>
    /\ UNCHANGED shaderVars

(* The device's clock does not run backwards: the end tick is not before   *)
(* the start tick.                                                         *)
Read ==
    /\ \E n \in Queries, mapped \in BOOLEAN,
          time_start \in 0..MaxTick, time_end \in 0..MaxTick :
        /\ time_start <= time_end
        /\ LET r == read(TimeQuery(n), mapped, time_start, time_end, 1) IN
            /\ call' = ProfileCall("read", n)
            /\ ret' = r.ret
            /\ deviceCalls' = r.calls
            /\ log' = r.log
    /\ UNCHANGED <<encoder, started, shaderVars>>

InitProfile ==
    /\ call = NoCall
    /\ ret = NoRet
    /\ deviceCalls = <<>>
    /\ file = None
    /\ source = None
    /\ errorScopes = <<>>
    /\ FreshEncoder

NextProfile ==
    \/ New
    \/ ComputeTimestampWrites
    \/ RenderTimestampWrites
    \/ WriteStartTimestamp
    \/ WriteEndTimestamp
    \/ Read

SpecProfile == InitProfile /\ [][NextProfile]_vars

----------------------------------------------------------------------------
(* Claims about TimeQuery, checked under SpecProfile.                      *)

(* The timestamp writes of the n-th TimeQuery in the encoder, in order.    *)
TimestampsOf(n) ==
    LET Mine(c) == c.fn = "write_timestamp" /\ c.query_set = QuerySet(n)
    IN  SelectSeq(encoder, Mine)

(* They go start, end, start, ... and the flag is set exactly when the     *)
(* last of them is a start.                                                *)
Alternates(n) ==
    LET w == TimestampsOf(n) IN
    /\ \A i \in 1..Len(w) : w[i].query_index = (i + 1) % 2
    /\ started[n] = (Len(w) % 2 = 1)

(* A step that is a call of write_start_timestamp or write_end_timestamp   *)
(* on the n-th TimeQuery: in the wrong state it panics and changes neither *)
(* the encoder nor any flag; in the right state it records its one         *)
(* timestamp and flips the flag of that TimeQuery only.                    *)
WriteStep(n) ==
    /\ call' = ProfileCall("write_start_timestamp", n) =>
          IF started[n]
          THEN /\ ret' = Panic(StartedTwice)
               /\ encoder' = encoder
               /\ started' = started
          ELSE /\ ret' = Ok(None)
               /\ encoder' = Append(encoder,
                                    WriteTimestampCall(QuerySet(n), 0))
               /\ started' = [started EXCEPT ![n] = TRUE]
    /\ call' = ProfileCall("write_end_timestamp", n) =>
          IF ~started[n]
          THEN /\ ret' = Panic(EndedUnstarted)
               /\ encoder' = encoder
               /\ started' = started
          ELSE /\ ret' = Ok(None)
               /\ encoder' = Append(encoder,
                                    WriteTimestampCall(QuerySet(n), 1))
               /\ started' = [started EXCEPT ![n] = FALSE]

(* C15: on every TimeQuery the timestamp writes strictly alternate,        *)
(* beginning with a start: a start while started and an end while not      *)
(* started panic, a panicking call writes no timestamp, and the started    *)
(* flag is true exactly when the last successful write was a start.        *)
C15_StrictAlternation ==
    /\ [](\A n \in Queries : Alternates(n))
    /\ [][\A n \in Queries : WriteStep(n)]_vars

(* A TimeQuery that went through start, end, start has just refused a      *)
(* second start.                                                           *)
C15_Witness ==
    /\ call.op = "write_start_timestamp"
    /\ ret = Panic(StartedTwice)
    /\ Len(TimestampsOf(call.query)) = 3
    /\ started[call.query]

====
